---- MODULE Spec2Model ----
(***************************************************************************)
(* A model of buoyancy: the top-down splay tree of src/src/map.rs and the  *)
(* exclusion bands of src/src/exclusions.rs built on it.                   *)
(*                                                                         *)
(* An Option<T> is a sequence of length 0 (None) or 1 (Some).  A node is   *)
(* the record [key, value, left, right] whose left and right are           *)
(* Option<Box<Node>>.  A closure passed to splay_with / lower_bound_with   *)
(* is the record of the values it captures, applied by Compare.            *)
(***************************************************************************)
EXTENDS Integers, Sequences, FiniteSets, TLC

\* ------------------------------------------------------------------ bounds

\* keys and values of the generic map
MaxKey == 4
MaxVal == 2
\* block positions and inline extents handed to exclude and place
MaxBlock == 2
MaxInline == 2
\* block extents (heights) of the boxes handed to place
MaxHeight == 1
\* calls made in the documented example
MaxCalls == 3

Keys == 1..MaxKey
Vals == 1..MaxVal

\* ------------------------------------------------------------------ Option, Node

None == <<>>
Some(x) == <<x>>

\* Node::new(key, value, left, right)
NodeNew(k, v, l, r) == [key |-> k, value |-> v, left |-> l, right |-> r]

\* ------------------------------------------------------------------ comparators

\* |other_key, _| key.cmp(other_key.borrow())
KeyCmp(key) == [kind |-> "key", key |-> key]

\* the closure of Exclusions::split
SplitCmp(block) == [kind |-> "split", block |-> block]

\* the closure of the propagate loop of Exclusions::exclude
PropagateCmp(last_block_position) == [kind |-> "propagate", last |-> last_block_position]

\* the closure of Exclusions::place
InlineCmp(inline, inline_size) ==
    [kind |-> "inline", inline |-> inline, inline_size |-> inline_size]

MAX_AU == 2147483647

\* Band::available_size
available_size(band, inline_size) == inline_size + band.left + band.right

compare_inline_size_wrong(band_block_start, band, exclusion_inline, inline_size) ==
    IF exclusion_inline < available_size(band, inline_size) THEN "Less"
    ELSE IF band_block_start + band.length = MAX_AU THEN "Equal"
    ELSE "Greater"

compare_inline_size_no_fallback(band_block_start, band, exclusion_inline, inline_size) ==
    IF exclusion_inline <= available_size(band, inline_size) THEN "Less"
    ELSE "Greater"

compare_inline_size(band_block_start, band, exclusion_inline, inline_size) ==
    IF exclusion_inline <= available_size(band, inline_size) THEN "Less"
    ELSE IF band_block_start + band.length = MAX_AU THEN "Equal"
    ELSE "Greater"

\* compare(&node.key_value.0, &node.key_value.1) for each closure of the program
Compare(q, k, v) ==
    CASE q.kind = "key" ->
            IF q.key < k THEN "Less" ELSE IF q.key > k THEN "Greater" ELSE "Equal"
      [] q.kind = "split" ->
            IF q.block < k THEN "Less"
            ELSE IF q.block >= k + v.length THEN "Greater"
            ELSE "Equal"
      [] q.kind = "propagate" ->
            IF q.last <= k THEN "Less"
            ELSE IF q.last > k + v.length THEN "Greater"
            ELSE "Equal"
      [] q.kind = "inline" -> compare_inline_size(k, v, q.inline, q.inline_size)

\* ------------------------------------------------------------------ splay_with

\* The chain built through `r` (newleft): each detached node hangs in the
\* left field of the one before it; `hole` is what the last swap puts in
\* the open left field.
RECURSIVE GraftRight(_, _)
GraftRight(chain, hole) ==
    IF chain = <<>> THEN hole
    ELSE Some([chain[1] EXCEPT !.left = GraftRight(Tail(chain), hole)])

\* The chain built through `l` (newright): each detached node hangs in the
\* right field of the one before it.
RECURSIVE GraftLeft(_, _)
GraftLeft(chain, hole) ==
    IF chain = <<>> THEN hole
    ELSE Some([chain[1] EXCEPT !.right = GraftLeft(Tail(chain), hole)])

\* a splay that rotates at most once
SplayOnce(q, node) ==
    LET c == Compare(q, node.key, node.value) IN
    IF c = "Less" /\ node.left # None
    THEN LET left == node.left[1]
         IN  [left EXCEPT !.right = Some([node EXCEPT !.left = left.right])]
    ELSE IF c = "Greater" /\ node.right # None
    THEN LET right == node.right[1]
         IN  [right EXCEPT !.left = Some([node EXCEPT !.right = right.left])]
    ELSE node

SplayFinishDropsRight(node, lchain, rchain) ==
    [node EXCEPT !.left = GraftLeft(lchain, node.left),
                 !.right = GraftRight(rchain, None)]

\* after the loop: the two swaps and the two replaces
SplayFinish(node, lchain, rchain) ==
    [node EXCEPT !.left = GraftLeft(lchain, node.left),
                 !.right = GraftRight(rchain, node.right)]

\* the loop with the first swap of the zig-zig left out when the descent
\* ends there
RECURSIVE SplayLoopEarlyEndDropsChild(_, _, _, _)
SplayLoopEarlyEndDropsChild(q, node, lchain, rchain) ==
    LET c == Compare(q, node.key, node.value) IN
    CASE c = "Equal" -> SplayFinish(node, lchain, rchain)
      [] c = "Less" ->
            IF node.left = None THEN SplayFinish(node, lchain, rchain)
            ELSE LET left == node.left[1]
                     taken == [node EXCEPT !.left = None]
                 IN  IF Compare(q, left.key, left.value) = "Less"
                     THEN LET lowered == [taken EXCEPT !.left = left.right]
                              rot == [left EXCEPT !.right = Some(lowered)]
                          IN  IF rot.left = None
                              THEN SplayFinish([left EXCEPT !.right = Some(taken)],
                                               lchain, rchain)
                              ELSE SplayLoopEarlyEndDropsChild(q, rot.left[1], lchain,
                                             Append(rchain, [rot EXCEPT !.left = None]))
                     ELSE SplayLoopEarlyEndDropsChild(q, left, lchain, Append(rchain, taken))
      [] c = "Greater" ->
            IF node.right = None THEN SplayFinish(node, lchain, rchain)
            ELSE LET right == node.right[1]
                     taken == [node EXCEPT !.right = None]
                 IN  IF Compare(q, right.key, right.value) = "Greater"
                     THEN LET lowered == [taken EXCEPT !.right = right.left]
                              rot == [right EXCEPT !.left = Some(lowered)]
                          IN  IF rot.right = None
                              THEN SplayFinish([right EXCEPT !.left = Some(taken)],
                                               lchain, rchain)
                              ELSE SplayLoopEarlyEndDropsChild(q, rot.right[1],
                                             Append(lchain, [rot EXCEPT !.right = None]),
                                             rchain)
                     ELSE SplayLoopEarlyEndDropsChild(q, right, Append(lchain, taken), rchain)

RECURSIVE SplayLoop(_, _, _, _)
SplayLoop(q, node, lchain, rchain) ==
    LET c == Compare(q, node.key, node.value) IN
    CASE c = "Equal" -> SplayFinish(node, lchain, rchain)
      [] c = "Less" ->
            IF node.left = None THEN SplayFinish(node, lchain, rchain)
            ELSE LET left == node.left[1]
                     taken == [node EXCEPT !.left = None]
                 IN  IF Compare(q, left.key, left.value) = "Less"
                     THEN LET lowered == [taken EXCEPT !.left = left.right]
                              rot == [left EXCEPT !.right = Some(lowered)]
                          IN  IF rot.left = None
                              THEN SplayFinish(rot, lchain, rchain)
                              ELSE SplayLoop(q, rot.left[1], lchain,
                                             Append(rchain, [rot EXCEPT !.left = None]))
                     ELSE SplayLoop(q, left, lchain, Append(rchain, taken))
      [] c = "Greater" ->
            IF node.right = None THEN SplayFinish(node, lchain, rchain)
            ELSE LET right == node.right[1]
                     taken == [node EXCEPT !.right = None]
                 IN  IF Compare(q, right.key, right.value) = "Greater"
                     THEN LET lowered == [taken EXCEPT !.right = right.left]
                              rot == [right EXCEPT !.left = Some(lowered)]
                          IN  IF rot.right = None
                              THEN SplayFinish(rot, lchain, rchain)
                              ELSE SplayLoop(q, rot.right[1],
                                             Append(lchain, [rot EXCEPT !.right = None]),
                                             rchain)
                     ELSE SplayLoop(q, right, Append(lchain, taken), rchain)

splay_with(q, node) == SplayLoop(q, node, <<>>, <<>>)

splay_with_key(key, node) == splay_with(KeyCmp(key), node)

\* ------------------------------------------------------------------ lower_bound_with

RECURSIVE lower_bound_with(_, _)
lower_bound_with(q, node) ==
    LET c == Compare(q, node.key, node.value) IN
    CASE c = "Less" ->
            LET below == IF node.left # None
                         THEN lower_bound_with(q, node.left[1])
                         ELSE None
            IN  IF below # None THEN below ELSE Some(<<node.key, node.value>>)
      [] c = "Greater" ->
            IF node.right # None THEN lower_bound_with(q, node.right[1]) ELSE None
      [] c = "Equal" -> Some(<<node.key, node.value>>)

\* ------------------------------------------------------------------ SplayMap

SplayMapNew == [root |-> None, size |-> 0]

\* SplayMap::get: the map after the splay, and the value returned
Get(m, key) ==
    IF m.root = None THEN [map |-> m, ret |-> None]
    ELSE LET root == splay_with_key(key, m.root[1])
         IN  [map |-> [m EXCEPT !.root = Some(root)],
              ret |-> IF key = root.key THEN Some(root.value) ELSE None]

\* SplayMap::get_with_mut: the map after the splay, and whether the root
\* pair is returned
GetWithMut(m, q) ==
    IF m.root = None THEN [map |-> m, found |-> FALSE]
    ELSE LET root == splay_with(q, m.root[1])
         IN  [map |-> [m EXCEPT !.root = Some(root)],
              found |-> Compare(q, root.key, root.value) = "Equal"]

\* SplayMap::lower_bound_with
LowerBoundWith(m, q) ==
    IF m.root = None THEN None ELSE lower_bound_with(q, m.root[1])

InsertNoReplace(m, key, value) ==
    IF m.root = None
    THEN [map |-> [root |-> Some(NodeNew(key, value, None, None)), size |-> m.size + 1],
          ret |-> None]
    ELSE LET root == splay_with_key(key, m.root[1])
         IN  CASE key = root.key ->
                    [map |-> [m EXCEPT !.root = Some(root)], ret |-> Some(root.value)]
               [] key < root.key ->
                    [map |-> [root |-> Some(NodeNew(key, value, root.left,
                                                    Some([root EXCEPT !.left = None]))),
                              size |-> m.size + 1],
                     ret |-> None]
               [] key > root.key ->
                    [map |-> [root |-> Some(NodeNew(key, value,
                                                    Some([root EXCEPT !.right = None]),
                                                    root.right)),
                              size |-> m.size + 1],
                     ret |-> None]

InsertCountsAlways(m, key, value) ==
    IF m.root = None
    THEN [map |-> [root |-> Some(NodeNew(key, value, None, None)), size |-> m.size + 1],
          ret |-> None]
    ELSE LET root == splay_with_key(key, m.root[1])
         IN  CASE key = root.key ->
                    [map |-> [root |-> Some([root EXCEPT !.value = value]),
                              size |-> m.size + 1],
                     ret |-> Some(root.value)]
               [] key < root.key ->
                    [map |-> [root |-> Some(NodeNew(key, value, root.left,
                                                    Some([root EXCEPT !.left = None]))),
                              size |-> m.size + 1],
                     ret |-> None]
               [] key > root.key ->
                    [map |-> [root |-> Some(NodeNew(key, value,
                                                    Some([root EXCEPT !.right = None]),
                                                    root.right)),
                              size |-> m.size + 1],
                     ret |-> None]

\* SplayMap::insert: the map afterwards, and the value returned
Insert(m, key, value) ==
    IF m.root = None
    THEN [map |-> [root |-> Some(NodeNew(key, value, None, None)), size |-> m.size + 1],
          ret |-> None]
    ELSE LET root == splay_with_key(key, m.root[1])
         IN  CASE key = root.key ->
                    [map |-> [m EXCEPT !.root = Some([root EXCEPT !.value = value])],
                     ret |-> Some(root.value)]
               [] key < root.key ->
                    [map |-> [root |-> Some(NodeNew(key, value, root.left,
                                                    Some([root EXCEPT !.left = None]))),
                              size |-> m.size + 1],
                     ret |-> None]
               [] key > root.key ->
                    [map |-> [root |-> Some(NodeNew(key, value,
                                                    Some([root EXCEPT !.right = None]),
                                                    root.right)),
                              size |-> m.size + 1],
                     ret |-> None]

\* the left subtree of the removed root, splayed again on the key
RemoveResplay(key, left) == splay_with_key(key, left)

RemoveDropsRight(m, key) ==
    IF m.root = None THEN [map |-> m, ret |-> None]
    ELSE LET root == splay_with_key(key, m.root[1])
         IN  IF key # root.key
             THEN [map |-> [m EXCEPT !.root = Some(root)], ret |-> None]
             ELSE [map |-> [root |-> IF root.left = None THEN root.right
                                     ELSE Some(RemoveResplay(key, root.left[1])),
                            size |-> m.size - 1],
                   ret |-> Some(root.value)]

\* SplayMap::remove: the map afterwards, and the value returned
Remove(m, key) ==
    IF m.root = None THEN [map |-> m, ret |-> None]
    ELSE LET root == splay_with_key(key, m.root[1])
         IN  IF key # root.key
             THEN [map |-> [m EXCEPT !.root = Some(root)], ret |-> None]
             ELSE [map |-> [root |-> IF root.left = None THEN root.right
                                     ELSE Some([RemoveResplay(key, root.left[1])
                                                   EXCEPT !.right = root.right]),
                            size |-> m.size - 1],
                   ret |-> Some(root.value)]

\* ------------------------------------------------------------------ IntoIter

\* SplayMap::into_iter
IntoIter(m) == [cur |-> m.root, remaining |-> m.size]

RECURSIVE NextLoopLosesRight(_)
NextLoopLosesRight(cur) ==
    IF cur.left # None
    THEN LET node == cur.left[1]
         IN  NextLoopLosesRight([node EXCEPT !.right = Some([cur EXCEPT !.left = None])])
    ELSE cur

\* the loop of IntoIter::next: rotate right until cur has no left child
RECURSIVE NextLoop(_)
NextLoop(cur) ==
    IF cur.left # None
    THEN LET node == cur.left[1]
         IN  NextLoop([node EXCEPT !.right = Some([cur EXCEPT !.left = node.right])])
    ELSE cur

\* IntoIter::next
IterNext(it) ==
    IF it.cur = None THEN [iter |-> it, ret |-> None]
    ELSE LET cur == NextLoop(it.cur[1])
         IN  [iter |-> [cur |-> cur.right, remaining |-> it.remaining - 1],
              ret |-> Some(<<cur.key, cur.value>>)]

\* the loop of IntoIter::next_back: rotate left until cur has no right child
RECURSIVE NextBackLoop(_)
NextBackLoop(cur) ==
    IF cur.right # None
    THEN LET node == cur.right[1]
         IN  NextBackLoop([node EXCEPT !.left = Some([cur EXCEPT !.right = node.left])])
    ELSE cur

NextBackKeepsRemaining(it) ==
    IF it.cur = None THEN [iter |-> it, ret |-> None]
    ELSE LET cur == NextBackLoop(it.cur[1])
         IN  [iter |-> [cur |-> cur.left, remaining |-> it.remaining],
              ret |-> Some(<<cur.key, cur.value>>)]

\* IntoIter::next_back
IterNextBack(it) ==
    IF it.cur = None THEN [iter |-> it, ret |-> None]
    ELSE LET cur == NextBackLoop(it.cur[1])
         IN  [iter |-> [cur |-> cur.left, remaining |-> it.remaining - 1],
              ret |-> Some(<<cur.key, cur.value>>)]

\* the for loop of SplayMap::clear: the number of pairs the iterator hands out
\* before it returns None
RECURSIVE Drain(_)
Drain(it) ==
    LET r == IterNext(it) IN
    IF r.ret = None THEN 0 ELSE 1 + Drain(r.iter)

ClearKeepsSize(m) ==
    [map |-> [root |-> None, size |-> m.size], dropped |-> Drain(IntoIter(m))]

\* SplayMap::clear: the root is taken, every pair is dropped through the
\* iterator, and size is set to 0
Clear(m) ==
    [map |-> [root |-> None, size |-> 0], dropped |-> Drain(IntoIter(m))]

\* ------------------------------------------------------------------ Exclusions

\* Band::new(left, right, length)
BandNew(left, right, length) == [left |-> left, right |-> right, length |-> length]

\* Band::get
BandGet(band, side) == IF side = "Left" THEN band.left ELSE band.right

\* Band::set
BandSet(band, side, inline_size) ==
    IF side = "Left" THEN [band EXCEPT !.left = inline_size]
    ELSE [band EXCEPT !.right = inline_size]

\* Size::new(inline, block)
SizeNew(inline, block) == [inline |-> inline, block |-> block]

\* Exclusions::new: the bands are collected from the one pair (0, Band(0, 0, MAX_AU))
ExclusionsNew(inline_size) ==
    [bands |-> Insert(SplayMapNew, 0, BandNew(0, 0, MAX_AU)).map,
     inline_size |-> inline_size]

SplitKeepsUpperLength(e, side, size) ==
    LET r == GetWithMut(e.bands, SplitCmp(size.block)) IN
    IF ~r.found THEN [excl |-> [e EXCEPT !.bands = r.map], ok |-> FALSE]
    ELSE LET upper == r.map.root[1]
             floor == upper.key + upper.value.length
             lower_band == BandNew(upper.value.left, upper.value.right, floor - size.block)
         IN  [excl |-> [e EXCEPT !.bands = Insert(r.map, size.block, lower_band).map],
              ok |-> TRUE]

\* Exclusions::split: ok is FALSE where the expect() panics
Split(e, side, size) ==
    LET r == GetWithMut(e.bands, SplitCmp(size.block)) IN
    IF ~r.found THEN [excl |-> [e EXCEPT !.bands = r.map], ok |-> FALSE]
    ELSE LET upper == r.map.root[1]
             floor == upper.key + upper.value.length
             shrunk == [upper EXCEPT !.value.length = size.block - upper.key]
             lower_band == BandNew(upper.value.left, upper.value.right, floor - size.block)
         IN  [excl |-> [e EXCEPT !.bands =
                           Insert([r.map EXCEPT !.root = Some(shrunk)],
                                  size.block, lower_band).map],
              ok |-> TRUE]

RECURSIVE PropagateUnguarded(_, _, _, _)
PropagateUnguarded(bands, side, size, last_block_position) ==
    LET r == GetWithMut(bands, PropagateCmp(last_block_position)) IN
    IF r.found
    THEN LET root == r.map.root[1]
             band == BandSet(root.value, side, -size.inline)
         IN  PropagateUnguarded([r.map EXCEPT !.root = Some([root EXCEPT !.value = band])],
                                side, size, root.key)
    ELSE r.map

PropagateStepKeepsPosition(bands, side, size, last_block_position) ==
    LET r == GetWithMut(bands, PropagateCmp(last_block_position)) IN
    IF r.found /\ -BandGet(r.map.root[1].value, side) <= size.inline
    THEN LET root == r.map.root[1]
             band == BandSet(root.value, side, -size.inline)
         IN  [bands |-> [r.map EXCEPT !.root = Some([root EXCEPT !.value = band])],
              last |-> last_block_position, exit |-> "no"]
    ELSE [bands |-> r.map, last |-> last_block_position,
          exit |-> IF r.found THEN "deeper" ELSE "none"]

\* one iteration of the loop of Exclusions::exclude: the bands and
\* last_block_position after it, and whether and why it took the break
PropagateStep(bands, side, size, last_block_position) ==
    LET r == GetWithMut(bands, PropagateCmp(last_block_position)) IN
    IF r.found /\ -BandGet(r.map.root[1].value, side) <= size.inline
    THEN LET root == r.map.root[1]
             band == BandSet(root.value, side, -size.inline)
         IN  [bands |-> [r.map EXCEPT !.root = Some([root EXCEPT !.value = band])],
              last |-> root.key, exit |-> "no"]
    ELSE [bands |-> r.map, last |-> last_block_position,
          exit |-> IF r.found THEN "deeper" ELSE "none"]

RECURSIVE PropagateStopsOnEqual(_, _, _, _)
PropagateStopsOnEqual(bands, side, size, last_block_position) ==
    LET r == GetWithMut(bands, PropagateCmp(last_block_position)) IN
    IF r.found /\ -BandGet(r.map.root[1].value, side) < size.inline
    THEN LET root == r.map.root[1]
             band == BandSet(root.value, side, -size.inline)
         IN  PropagateStopsOnEqual([r.map EXCEPT !.root = Some([root EXCEPT !.value = band])],
                                   side, size, root.key)
    ELSE r.map

PropagateOneBand(bands, side, size, last_block_position) ==
    LET r == GetWithMut(bands, PropagateCmp(last_block_position)) IN
    IF r.found /\ -BandGet(r.map.root[1].value, side) <= size.inline
    THEN LET root == r.map.root[1]
             band == BandSet(root.value, side, -size.inline)
         IN  [r.map EXCEPT !.root = Some([root EXCEPT !.value = band])]
    ELSE r.map

\* the loop of Exclusions::exclude, from last_block_position on
RECURSIVE Propagate(_, _, _, _)
Propagate(bands, side, size, last_block_position) ==
    LET r == GetWithMut(bands, PropagateCmp(last_block_position)) IN
    IF r.found /\ -BandGet(r.map.root[1].value, side) <= size.inline
    THEN LET root == r.map.root[1]
             band == BandSet(root.value, side, -size.inline)
         IN  Propagate([r.map EXCEPT !.root = Some([root EXCEPT !.value = band])],
                       side, size, root.key)
    ELSE r.map

ExcludeChecksBlockOnly(e, side, size) ==
    IF size.block = 0 THEN [excl |-> e, ok |-> TRUE]
    ELSE LET s == Split(e, side, size) IN
         IF ~s.ok THEN s
         ELSE [excl |-> [e EXCEPT !.bands = Propagate(s.excl.bands, side, size, size.block)],
               ok |-> TRUE]

\* Exclusions::exclude
Exclude(e, side, size) ==
    IF size.inline = 0 \/ size.block = 0 THEN [excl |-> e, ok |-> TRUE]
    ELSE LET s == Split(e, side, size) IN
         IF ~s.ok THEN s
         ELSE [excl |-> [e EXCEPT !.bands = Propagate(s.excl.bands, side, size, size.block)],
               ok |-> TRUE]

PlaceSignSlip(e, side, size) ==
    LET found == LowerBoundWith(e.bands, InlineCmp(size.inline, e.inline_size)) IN
    IF found = None THEN [excl |-> e, ok |-> FALSE, ret |-> [inline |-> 0, block |-> 0]]
    ELSE LET block_position == found[1][1]
             g == Get(e.bands, block_position)
             band == g.ret[1]
             inline_position == IF side = "Left" THEN band.left
                                ELSE e.inline_size - band.right - size.inline
         IN  [excl |-> [e EXCEPT !.bands = g.map], ok |-> TRUE,
              ret |-> [inline |-> inline_position, block |-> block_position]]

\* Exclusions::place: ok is FALSE where the expect() panics
Place(e, side, size) ==
    LET found == LowerBoundWith(e.bands, InlineCmp(size.inline, e.inline_size)) IN
    IF found = None THEN [excl |-> e, ok |-> FALSE, ret |-> [inline |-> 0, block |-> 0]]
    ELSE LET block_position == found[1][1]
             g == Get(e.bands, block_position)
             band == g.ret[1]
             inline_position == IF side = "Left" THEN -band.left
                                ELSE e.inline_size + band.right - size.inline
         IN  [excl |-> [e EXCEPT !.bands = g.map], ok |-> TRUE,
              ret |-> [inline |-> inline_position, block |-> block_position]]

\* ------------------------------------------------------------------ state

VARIABLES
    map,        \* the SplayMap<K, V> under test: [root, size]
    model,      \* the reference ordered map: key -> Option<V>
    call,       \* the last call on the map or its iterator, with what it returned
    iter,       \* Option<IntoIter>: [cur, remaining], once into_iter has consumed the map
    yielded,    \* the pairs the iterator has returned so far, each with the method called
    excl,       \* the Exclusions: [bands, inline_size]
    ecall,      \* the last call on the Exclusions, with what it returned
    intruded,   \* the reference simulation: side -> block row -> excluded inline extent
    history     \* the calls made so far on the Exclusions of the documented example

mvars == <<map, model, call, iter, yielded>>
evars == <<excl, ecall, intruded, history>>
vars == <<map, model, call, iter, yielded, excl, ecall, intruded, history>>

Sides == {"Left", "Right"}
Rows == 0..MaxBlock
Max(a, b) == IF a >= b THEN a ELSE b

NoCall == [op |-> "new", key |-> 0, value |-> 0, ret |-> None, presize |-> 0,
           pre |-> [k \in Keys |-> None]]

\* SplayMap::new()
MapInit ==
    /\ map = SplayMapNew
    /\ model = [k \in Keys |-> None]
    /\ call = NoCall
    /\ iter = None
    /\ yielded = <<>>

NoECall == [op |-> "new", side |-> "Left", size |-> SizeNew(0, 0), ok |-> TRUE,
            ret |-> [inline |-> 0, block |-> 0], resplit |-> FALSE, pre |-> None,
            reshaped |-> FALSE, other |-> None,
            pc |-> "idle", last |-> 0, steps |-> 0, exit |-> "none", whole |-> None]

\* Exclusions::new(inline_size), with nothing excluded yet
ExclInit(inline_sizes) ==
    /\ excl \in {ExclusionsNew(w) : w \in inline_sizes}
    /\ ecall = NoECall
    /\ intruded = [s \in Sides |-> [p \in Rows |-> 0]]
    /\ history = <<>>

MapSpecInit == MapInit /\ ExclInit({MaxInline})

MapInsert ==
    \E k \in Keys, v \in Vals :
        /\ iter = None
        /\ LET r == Insert(map, k, v)
           IN  /\ map' = r.map
               /\ call' = [op |-> "insert", key |-> k, value |-> v, ret |-> r.ret,
                           presize |-> map.size, pre |-> model]
        /\ model' = [model EXCEPT ![k] = Some(v)]
        /\ UNCHANGED <<iter, yielded, evars>>

MapRemove ==
    \E k \in Keys :
        /\ iter = None
        /\ LET r == Remove(map, k)
           IN  /\ map' = r.map
               /\ call' = [op |-> "remove", key |-> k, value |-> 0, ret |-> r.ret,
                           presize |-> map.size, pre |-> model]
        /\ model' = [model EXCEPT ![k] = None]
        /\ UNCHANGED <<iter, yielded, evars>>

MapGet ==
    \E k \in Keys :
        /\ iter = None
        /\ LET r == Get(map, k)
           IN  /\ map' = r.map
               /\ call' = [op |-> "get", key |-> k, value |-> 0, ret |-> r.ret,
                           presize |-> map.size, pre |-> model]
        /\ UNCHANGED <<model, iter, yielded, evars>>

MapClear ==
    /\ iter = None
    /\ LET r == Clear(map)
       IN  /\ map' = r.map
           /\ call' = [op |-> "clear", key |-> 0, value |-> r.dropped, ret |-> None,
                       presize |-> map.size, pre |-> model]
    /\ model' = [k \in Keys |-> None]
    /\ UNCHANGED <<iter, yielded, evars>>

\* into_iter takes the root; the emptied map is then dropped
MapIntoIter ==
    /\ iter = None
    /\ iter' = Some(IntoIter(map))
    /\ map' = SplayMapNew
    /\ call' = [op |-> "into_iter", key |-> 0, value |-> 0, ret |-> None,
                presize |-> map.size, pre |-> model]
    /\ UNCHANGED <<model, yielded, evars>>

\* the caller stops at the first None
Exhausted == call.op \in {"next", "next_back"} /\ call.ret = None

MapNext ==
    /\ iter # None
    /\ ~Exhausted
    /\ LET r == IterNext(iter[1])
       IN  /\ iter' = Some(r.iter)
           /\ call' = [op |-> "next", key |-> 0, value |-> 0, ret |-> r.ret,
                       presize |-> iter[1].remaining, pre |-> model]
           /\ yielded' = IF r.ret = None THEN yielded
                         ELSE Append(yielded, [op |-> "next", pair |-> r.ret[1]])
    /\ UNCHANGED <<map, model, evars>>

MapNextBack ==
    /\ iter # None
    /\ ~Exhausted
    /\ LET r == IterNextBack(iter[1])
       IN  /\ iter' = Some(r.iter)
           /\ call' = [op |-> "next_back", key |-> 0, value |-> 0, ret |-> r.ret,
                       presize |-> iter[1].remaining, pre |-> model]
           /\ yielded' = IF r.ret = None THEN yielded
                         ELSE Append(yielded, [op |-> "next_back", pair |-> r.ret[1]])
    /\ UNCHANGED <<map, model, evars>>

MapNextStep ==
    \/ MapInsert
    \/ MapRemove
    \/ MapGet
    \/ MapClear
    \/ MapIntoIter
    \/ MapNext
    \/ MapNextBack

SpecMap == MapSpecInit /\ [][MapNextStep]_vars

\* ------------------------------------------------------------------ the ordered-map claims

\* the pairs of the reference map in ascending key order, from key k on
RECURSIVE AscendingFrom(_)
AscendingFrom(k) ==
    IF k > MaxKey THEN <<>>
    ELSE (IF model[k] = None THEN <<>> ELSE << <<k, model[k][1]>> >>) \o AscendingFrom(k + 1)

Ascending == AscendingFrom(1)

Descending == [i \in 1..Len(Ascending) |-> Ascending[Len(Ascending) + 1 - i]]

Stored == {k \in Keys : model[k] # None}

YieldedPairs == [i \in 1..Len(yielded) |-> yielded[i].pair]

\* the keys not yet yielded before the i-th yield
RemainingBefore(i) == Stored \ {yielded[j].pair[1] : j \in 1..(i - 1)}

\* C4: whatever splaying has done to the tree, get(k) returns for every key
\* the value the reference map holds for it (the last value inserted and not
\* removed since, None otherwise), and so did the last get call.
C4_GetMatchesReference ==
    iter = None =>
        /\ \A k \in Keys : Get(map, k).ret = model[k]
        /\ call.op = "get" => call.ret = model[call.key]

\* a get has found its key in a full map and left it at the root, between two subtrees
C4_Witness ==
    /\ call.op = "get"
    /\ call.ret # None
    /\ map.size = MaxKey
    /\ map.root[1].key = call.key
    /\ map.root[1].left # None
    /\ map.root[1].right # None

\* C5: insert on a present key returns the previous value, stores the new one
\* and leaves size unchanged; on an absent key it returns None and size grows
\* by exactly 1; every other key keeps its value.
C5_InsertContract ==
    call.op = "insert" =>
        /\ call.ret = call.pre[call.key]
        /\ map.size = call.presize + (IF call.pre[call.key] = None THEN 1 ELSE 0)
        /\ Get(map, call.key).ret = Some(call.value)
        /\ \A j \in Keys \ {call.key} : Get(map, j).ret = call.pre[j]

\* an insert has replaced a different value, with other keys on both sides
C5_Witness ==
    /\ call.op = "insert"
    /\ call.ret # None
    /\ call.ret # Some(call.value)
    /\ \E a, b \in Keys : a < call.key /\ call.key < b
                          /\ call.pre[a] # None /\ call.pre[b] # None

\* C6: remove on an absent key returns None and changes neither size nor
\* content; on a present key it returns the key's value, size drops by exactly
\* 1 and only that key goes; the left subtree splayed again on the key has no
\* right child at its root, so attaching the right subtree loses nothing.
C6_RemoveContract ==
    /\ call.op = "remove" =>
        /\ call.ret = call.pre[call.key]
        /\ map.size = call.presize - (IF call.pre[call.key] = None THEN 0 ELSE 1)
        /\ Get(map, call.key).ret = None
        /\ \A j \in Keys \ {call.key} : Get(map, j).ret = call.pre[j]
    /\ iter = None /\ map.root # None =>
        \A k \in Keys :
            LET root == splay_with_key(k, map.root[1])
            IN  root.key = k /\ root.left # None
                    => RemoveResplay(k, root.left[1]).right = None

\* a remove has taken out a key that had stored keys on both sides
C6_Witness ==
    /\ call.op = "remove"
    /\ call.ret # None
    /\ \E a, b \in Keys : a < call.key /\ call.key < b
                          /\ call.pre[a] # None /\ call.pre[b] # None

\* C7: an iterator driven by next() alone yields the stored pairs in strictly
\* ascending key order, each exactly once, and all of them by the time it
\* returns None; driven by next_back() alone, in strictly descending order.
C7_OneDirectionOrder ==
    iter # None =>
        /\ (call.op \in {"into_iter", "next"} /\ \A i \in 1..Len(yielded) : yielded[i].op = "next")
              => /\ Len(yielded) <= Len(Ascending)
                 /\ YieldedPairs = SubSeq(Ascending, 1, Len(yielded))
                 /\ Exhausted => Len(yielded) = Len(Ascending)
        /\ (call.op \in {"into_iter", "next_back"}
                /\ \A i \in 1..Len(yielded) : yielded[i].op = "next_back")
              => /\ Len(yielded) <= Len(Descending)
                 /\ YieldedPairs = SubSeq(Descending, 1, Len(yielded))
                 /\ Exhausted => Len(yielded) = Len(Descending)

\* next() alone has drained a full map
C7_Witness ==
    /\ iter # None
    /\ call.op = "next"
    /\ Exhausted
    /\ Len(yielded) = MaxKey
    /\ \A i \in 1..Len(yielded) : yielded[i].op = "next"

\* C8: under any interleaving of next() and next_back() every yield is the
\* smallest (next) or largest (next_back) key not yet yielded, with its stored
\* value; the remaining count is the number of pairs not yet yielded; and it is
\* 0 exactly when the iterator has nothing left and returns None.
C8_Interleaved ==
    iter # None =>
        /\ \A i \in 1..Len(yielded) :
              LET k == yielded[i].pair[1]
              IN  /\ k \in RemainingBefore(i)
                  /\ yielded[i].pair[2] = model[k][1]
                  /\ yielded[i].op = "next" => \A j \in RemainingBefore(i) : k <= j
                  /\ yielded[i].op = "next_back" => \A j \in RemainingBefore(i) : k >= j
        /\ iter[1].remaining = Cardinality(Stored) - Len(yielded)
        /\ (iter[1].remaining = 0) <=> (iter[1].cur = None)
        /\ Exhausted => iter[1].remaining = 0

\* both ends were taken in turn until the iterator returned None
C8_Witness ==
    /\ iter # None
    /\ Exhausted
    /\ Len(yielded) = MaxKey
    /\ \E i, j \in 1..Len(yielded) :
          /\ i < j
          /\ yielded[i].op = "next_back"
          /\ yielded[j].op = "next"
          /\ \E h \in 1..Len(yielded) : h > j /\ yielded[h].op = "next_back"

\* ------------------------------------------------------------------ Exclusions calls

\* the reference simulation of exclude(side, size): the excluded region lies
\* against `side`, size.inline wide, over every row above size.block
Intrude(ref, side, size) ==
    IF size.inline = 0 \/ size.block = 0 THEN ref
    ELSE [ref EXCEPT ![side] =
            [p \in Rows |-> IF p < size.block THEN Max(ref[side][p], size.inline)
                            ELSE ref[side][p]]]

Init ==
    /\ MapInit
    /\ ExclInit({MaxInline + 1})

\* the inline extents of the boxes handed to place: up to one more than inline_size
PlaceInlines == 0..(MaxInline + 2)

ExcludeCall ==
    \E side \in Sides, inline \in 0..MaxInline, block \in 0..MaxBlock :
        /\ ecall.ok
        /\ LET size == SizeNew(inline, block)
               r == Exclude(excl, side, size)
           IN  /\ excl' = r.excl
               /\ ecall' = [NoECall EXCEPT !.op = "exclude", !.ok = r.ok,
                                            !.resplit = /\ inline # 0
                                                        /\ block # 0
                                                        /\ Get(excl.bands, block).ret # None]
               /\ intruded' = Intrude(intruded, side, size)
        /\ UNCHANGED <<history, mvars>>

PlaceCall ==
    \E side \in Sides, inline \in PlaceInlines, block \in 0..MaxHeight :
        /\ ecall.ok
        /\ LET size == SizeNew(inline, block)
               r == Place(excl, side, size)
           IN  /\ excl' = r.excl
               /\ ecall' = [op |-> "place", side |-> side, size |-> size, ok |-> r.ok,
                            ret |-> r.ret, resplit |-> FALSE, pre |-> None,
                            reshaped |-> FALSE, other |-> None,
                            pc |-> "idle", last |-> 0, steps |-> 0, exit |-> "none",
                            whole |-> None]
        /\ UNCHANGED <<intruded, history, mvars>>

Next ==
    \/ ExcludeCall
    \/ PlaceCall

Spec == Init /\ [][Next]_vars

\* the pairs of a tree in key order
RECURSIVE InOrder(_)
InOrder(t) ==
    IF t = None THEN <<>>
    ELSE InOrder(t[1].left) \o << <<t[1].key, t[1].value>> >> \o InOrder(t[1].right)

\* what an Exclusions holds, whatever the shape of its tree: the (start, band)
\* pairs by ascending start, and inline_size
Content(e) == [bands |-> InOrder(e.bands.root), inline_size |-> e.inline_size]

\* The same calls, recording for each what the Exclusions held before it,
\* for exclude its arguments, and for place whether the tree changed shape.
ExcludeRecorded ==
    \E side \in Sides, inline \in 0..MaxInline, block \in 0..MaxBlock :
        /\ ecall.ok
        /\ LET size == SizeNew(inline, block)
               r == Exclude(excl, side, size)
           IN  /\ excl' = r.excl
               /\ ecall' = [NoECall EXCEPT !.op = "exclude", !.side = side, !.size = size,
                                            !.ok = r.ok, !.pre = Some(Content(excl)),
                                            !.reshaped = (r.excl.bands # excl.bands)]
               /\ intruded' = Intrude(intruded, side, size)
        /\ UNCHANGED <<history, mvars>>

PlaceRecorded ==
    \E side \in Sides, inline \in PlaceInlines :
        /\ ecall.ok
        /\ LET size == SizeNew(inline, 0)
               r == Place(excl, side, size)
           IN  /\ excl' = r.excl
               /\ ecall' = [NoECall EXCEPT !.op = "place", !.ok = r.ok,
                                            !.pre = Some(Content(excl)),
                                            !.reshaped = (r.excl.bands # excl.bands)]
        /\ UNCHANGED <<intruded, history, mvars>>

NextExcl ==
    \/ ExcludeRecorded
    \/ PlaceRecorded

SpecExcl == Init /\ [][NextExcl]_vars

\* ------------------------------------------------------------------ the Exclusions claims

\* the bands of the Exclusions as (start, band) pairs by ascending start
Bands == InOrder(excl.bands.root)

Min(a, b) == IF a <= b THEN a ELSE b

\* the half-open intervals [a1, b1) and [a2, b2) share a point
Overlap(a1, b1, a2, b2) == Max(a1, a2) < Min(b1, b2)

\* C1: the box a place call returns, [inline, inline + size.inline) over the
\* rows [block, block + size.block), shares no point with a region excluded
\* on the same side in any of those rows, the excluded regions being those of
\* the row-by-row reference simulation of the exclude calls made so far.
C1_PlacedBoxAvoidsExcluded ==
    (ecall.op = "place" /\ ecall.ok) =>
        \A p \in Rows :
            (ecall.ret.block <= p /\ p < ecall.ret.block + ecall.size.block) =>
                IF ecall.side = "Left"
                THEN ~Overlap(ecall.ret.inline, ecall.ret.inline + ecall.size.inline,
                              0, intruded["Left"][p])
                ELSE ~Overlap(ecall.ret.inline, ecall.ret.inline + ecall.size.inline,
                              excl.inline_size - intruded["Right"][p], excl.inline_size)

\* a box of positive extent was placed in a row where the left side is excluded
C1_Witness ==
    /\ ecall.op = "place"
    /\ ecall.side = "Left"
    /\ ecall.size.inline > 0
    /\ ecall.size.block > 0
    /\ ecall.ret.block \in Rows
    /\ intruded["Left"][ecall.ret.block] > 0
    /\ Len(Bands) > 2

\* the linear scan: the start of the first band, by ascending start, that is
\* wide enough; the start of the open-ended band when none is
RECURSIVE ScanFrom(_, _, _)
ScanFrom(bands, i, inline) ==
    IF i > Len(bands) THEN -1
    ELSE IF inline <= available_size(bands[i][2], excl.inline_size) THEN bands[i][1]
    ELSE ScanFrom(bands, i + 1, inline)

OpenEnded(bands) == {i \in 1..Len(bands) : bands[i][1] + bands[i][2].length = MAX_AU}

LinearScan(bands, inline) ==
    LET fit == ScanFrom(bands, 1, inline)
    IN  IF fit # -1 THEN fit
        ELSE bands[CHOOSE i \in OpenEnded(bands) : TRUE][1]

\* C2: place returns as block the start of the lowest-starting band whose
\* available width is at least size.inline, and the start of the one
\* open-ended band when no band is wide enough: the block a linear scan of
\* the bands in ascending start order returns.
C2_PlaceLowestFittingBand ==
    (ecall.op = "place" /\ ecall.ok) =>
        /\ Cardinality(OpenEnded(Bands)) = 1
        /\ ecall.ret.block = LinearScan(Bands, ecall.size.inline)

\* a place call skipped a band too narrow for the box and took a lower one
C2_Witness ==
    /\ ecall.op = "place"
    /\ ecall.ret.block > 0
    /\ ScanFrom(Bands, 1, ecall.size.inline) = ecall.ret.block
    /\ Len(Bands) > 2

\* C3: the bands partition the block axis: the first starts at 0, each ends
\* where the next starts, none is empty, and the last one, and only it, ends
\* at MAX_AU.
C3_BandsPartition ==
    /\ Len(Bands) >= 1
    /\ Bands[1][1] = 0
    /\ \A i \in 1..Len(Bands) : Bands[i][2].length > 0
    /\ \A i \in 1..(Len(Bands) - 1) : Bands[i][1] + Bands[i][2].length = Bands[i + 1][1]
    /\ OpenEnded(Bands) = {Len(Bands)}
    /\ excl.bands.size = Len(Bands)

\* an exclude call has split at a block that already started a band
C3_Witness ==
    /\ ecall.op = "exclude"
    /\ ecall.resplit
    /\ Len(Bands) > 2

\* the band starting at `start`
BandAt(bands, start) == bands[CHOOSE i \in 1..Len(bands) : bands[i][1] = start][2]

\* C9: for the band it selected, place returns inline = -left for Left and
\* inline = inline_size + right - size.inline for Right; with nothing
\* excluded that is (0, 0) for Left and (inline_size - size.inline, 0) for
\* Right.
C9_PlaceInline ==
    (ecall.op = "place" /\ ecall.ok) =>
        /\ \E i \in 1..Len(Bands) : Bands[i][1] = ecall.ret.block
        /\ LET band == BandAt(Bands, ecall.ret.block)
           IN  ecall.ret.inline = IF ecall.side = "Left" THEN -band.left
                                  ELSE excl.inline_size + band.right - ecall.size.inline
        /\ (\A s \in Sides, p \in Rows : intruded[s][p] = 0) =>
              /\ ecall.ret.block = 0
              /\ ecall.ret.inline = IF ecall.side = "Left" THEN 0
                                    ELSE excl.inline_size - ecall.size.inline

\* a box was placed against the right side of a band excluded on both sides
C9_Witness ==
    /\ ecall.op = "place"
    /\ ecall.side = "Right"
    /\ ecall.size.inline > 0
    /\ BandAt(Bands, ecall.ret.block).right < 0
    /\ BandAt(Bands, ecall.ret.block).left < 0

\* ------------------------------------------------------------------ the documented example

\* the sizes of the example of Exclusions::new(1000)
DocInlineSize == {1000}
DocInlines == {100, 200}
DocBlocks == {0, 100}
DocHeights == {0, 50, 99}

DocInit ==
    /\ MapInit
    /\ ExclInit(DocInlineSize)

DocExclude ==
    \E side \in Sides, inline \in DocInlines, block \in DocBlocks :
        /\ ecall.ok
        /\ Len(history) < MaxCalls
        /\ LET size == SizeNew(inline, block)
               r == Exclude(excl, side, size)
           IN  /\ excl' = r.excl
               /\ ecall' = [NoECall EXCEPT !.op = "exclude", !.side = side,
                                            !.size = size, !.ok = r.ok]
               /\ history' = Append(history, [op |-> "exclude", side |-> side,
                                              size |-> size])
        /\ UNCHANGED <<intruded, mvars>>

DocPlace ==
    \E side \in Sides, block \in DocHeights :
        /\ ecall.ok
        /\ Len(history) < MaxCalls
        /\ LET size == SizeNew(100, block)
               r == Place(excl, side, size)
           IN  /\ excl' = r.excl
               /\ ecall' = [op |-> "place", side |-> side, size |-> size, ok |-> r.ok,
                            ret |-> r.ret, resplit |-> FALSE, pre |-> None,
                            reshaped |-> FALSE, other |-> None,
                            pc |-> "idle", last |-> 0, steps |-> 0, exit |-> "none",
                            whole |-> None]
               /\ history' = Append(history, [op |-> "place", side |-> side,
                                              size |-> size])
        /\ UNCHANGED <<intruded, mvars>>

DocNext ==
    \/ DocExclude
    \/ DocPlace

SpecDoc == DocInit /\ [][DocNext]_vars

\* the example: exclude(Left, {200, 0}), then an exclusion at block 100, then
\* place(Left, {100, b})
DocExample ==
    /\ Len(history) = 3
    /\ history[1] = [op |-> "exclude", side |-> "Left", size |-> SizeNew(200, 0)]
    /\ history[2].op = "exclude"
    /\ history[2].size.block = 100
    /\ history[3].op = "place"
    /\ history[3].side = "Left"

Magnitude(bands, side, y) ==
    LET i == CHOOSE i \in 1..Len(bands) :
                 bands[i][1] <= y /\ y - bands[i][1] < bands[i][2].length
    IN  -BandGet(bands[i][2], side)

\* C11: with size.block strictly between 0 and MAX_AU neither expect() fails:
\* no call has panicked, and in every reachable state place finds a band for
\* every side and size (also when no band is wide enough) and split finds the
\* band containing size.block.
C11_NoFatalCondition ==
    /\ ecall.ok
    /\ \A inline \in PlaceInlines :
          LowerBoundWith(excl.bands, InlineCmp(inline, excl.inline_size)) # None
    /\ \A block \in (1..MaxBlock) \cup {MAX_AU - 1} :
          GetWithMut(excl.bands, SplitCmp(block)).found

\* place was handed a box wider than every band and returned the open-ended band
C11_Witness ==
    /\ ecall.op = "place"
    /\ ecall.ok
    /\ \A i \in 1..Len(Bands) :
          ecall.size.inline > available_size(Bands[i][2], excl.inline_size)
    /\ Len(Bands) > 2
    /\ ecall.ret.block = Bands[Len(Bands)][1]

\* C19: bands are maximal: no two vertically adjacent bands have the same
\* left and the same right intrusion.
C19_BandsMaximal ==
    \A i \in 1..(Len(Bands) - 1) :
        ~(/\ Bands[i][2].left = Bands[i + 1][2].left
          /\ Bands[i][2].right = Bands[i + 1][2].right)

\* C20: on each side the recorded intrusion does not grow, as a magnitude,
\* with the band start, so no band is wider than a band starting after it.
C20_IntrusionMonotone ==
    \A i, j \in 1..Len(Bands) :
        i < j =>
            /\ -Bands[i][2].left >= -Bands[j][2].left
            /\ -Bands[i][2].right >= -Bands[j][2].right
            /\ available_size(Bands[i][2], excl.inline_size)
                  <= available_size(Bands[j][2], excl.inline_size)

\* exclusions on both sides have left three bands, each wider than the one above
C20_Witness ==
    /\ ecall.op = "exclude"
    /\ Len(Bands) > 2
    /\ -Bands[1][2].left > -Bands[2][2].left
    /\ -Bands[2][2].left > -Bands[3][2].left
    /\ -Bands[1][2].right > -Bands[2][2].right

\* C12: exclude never reduces an intrusion on the affected side: at every
\* block position the magnitude recorded on the call's side after the call is
\* at least the one recorded before it.
C12_ExcludeNeverReduces ==
    ecall.op = "exclude" =>
        \A y \in 0..(MaxBlock + 1) :
            Magnitude(Bands, ecall.side, y) >= Magnitude(ecall.pre[1].bands, ecall.side, y)

\* an exclude raised one row and left alone a row above it that was deeper
C12_Witness ==
    /\ ecall.op = "exclude"
    /\ \E y \in 0..MaxBlock :
          Magnitude(Bands, ecall.side, y) > Magnitude(ecall.pre[1].bands, ecall.side, y)
    /\ \E y \in 0..MaxBlock :
          /\ y < ecall.size.block
          /\ Magnitude(ecall.pre[1].bands, ecall.side, y) > ecall.size.inline
          /\ Magnitude(Bands, ecall.side, y) = Magnitude(ecall.pre[1].bands, ecall.side, y)

\* C13: place is a pure query on the logical state: the bands (start, length,
\* left, right) in key order and inline_size are the same after place as
\* before it, whatever the splay did to the tree.
C13_PlaceKeepsContent ==
    ecall.op = "place" => Content(excl) = ecall.pre[1]

\* a place call whose get changed the shape of the band tree
C13_Witness ==
    /\ ecall.op = "place"
    /\ ecall.ok
    /\ ecall.reshaped
    /\ Len(Bands) > 2

\* C15: exclude with size.inline = 0 or size.block = 0 is a no-op: the
\* Exclusions is, tree shape included, what it was before the call.
C15_ZeroExcludeNoOp ==
    (ecall.op = "exclude" /\ (ecall.size.inline = 0 \/ ecall.size.block = 0)) =>
        /\ ecall.ok
        /\ ~ecall.reshaped
        /\ Content(excl) = ecall.pre[1]

\* an exclude of zero depth at a block position where no band starts yet, in
\* an Exclusions that already has several bands
C15_Witness ==
    /\ ecall.op = "exclude"
    /\ ecall.size.inline = 0
    /\ ecall.size.block > 0
    /\ Len(Bands) > 1
    /\ \A i \in 1..Len(Bands) : Bands[i][1] # ecall.size.block

\* the start of the band covering block position y
BandStart(bands, y) ==
    LET i == CHOOSE i \in 1..Len(bands) :
                 bands[i][1] <= y /\ y - bands[i][1] < bands[i][2].length
    IN  bands[i][1]

OtherSide(side) == IF side = "Left" THEN "Right" ELSE "Left"

\* an exclude call that got past the zero check
PositiveExclude == ecall.op = "exclude" /\ ecall.size.inline > 0 /\ ecall.size.block > 0

\* C16 as stated: the propagate phase starts at the band beginning at
\* size.block and moves to the following bands (greater starts), raising the
\* intrusion on `side` to size.inline while size.inline exceeds it, and stops
\* at the first band whose intrusion is equal or greater.
C16_Original ==
    PositiveExclude =>
        \A y \in ecall.size.block..(MaxBlock + 1) :
            Magnitude(Bands, ecall.side, y) =
                IF \A z \in ecall.size.block..y :
                      Magnitude(ecall.pre[1].bands, ecall.side, z) < ecall.size.inline
                THEN ecall.size.inline
                ELSE Magnitude(ecall.pre[1].bands, ecall.side, y)

\* C16: the propagate phase of exclude(side, size) starts at the band ending
\* at size.block and moves to the bands before it (smaller starts): it sets
\* the intrusion on `side` to size.inline in each band while that band's
\* intrusion is at most size.inline, and stops at the first band whose
\* intrusion is strictly greater, which the last lookup leaves at the root,
\* or at the band starting at 0 when none is left. The other side and the
\* bands from size.block on keep their intrusions.
C16_PropagateTowardSmallerStarts ==
    PositiveExclude =>
        LET pre == ecall.pre[1].bands
            side == ecall.side
            size == ecall.size
            deeper == {y \in 0..(size.block - 1) : Magnitude(pre, side, y) > size.inline}
        IN  /\ ecall.ok
            /\ \A y \in 0..(MaxBlock + 1) :
                  /\ Magnitude(Bands, side, y) =
                        IF /\ y < size.block
                           /\ \A z \in y..(size.block - 1) :
                                 Magnitude(pre, side, z) <= size.inline
                        THEN size.inline
                        ELSE Magnitude(pre, side, y)
                  /\ Magnitude(Bands, OtherSide(side), y) = Magnitude(pre, OtherSide(side), y)
            /\ excl.bands.root[1].key =
                  IF deeper = {} THEN 0
                  ELSE BandStart(Bands, CHOOSE y \in deeper : \A z \in deeper : z <= y)

\* the loop passed over a band whose intrusion equalled size.inline and
\* stopped at a deeper band before it
C16_Witness ==
    /\ PositiveExclude
    /\ \E y \in 0..MaxBlock, z \in 0..MaxBlock :
          /\ z < y
          /\ y < ecall.size.block
          /\ Magnitude(ecall.pre[1].bands, ecall.side, y) = ecall.size.inline
          /\ Magnitude(ecall.pre[1].bands, ecall.side, z) > ecall.size.inline
          /\ excl.bands.root[1].key = BandStart(Bands, z)

\* ------------------------------------------------------------------ more ordered-map claims

\* the keys of a sequence of pairs are strictly ascending
StrictlyAscending(pairs) ==
    \A i, j \in 1..Len(pairs) : i < j => pairs[i][1] < pairs[j][1]

KeysOf(t) == {InOrder(t)[i][1] : i \in 1..Len(InOrder(t))}

\* C14: clear() leaves a map of any size and shape empty: the root is absent
\* and size is 0, every pair was dropped, get returns None for every key, and
\* an insert behaves as on a new map.
C14_ClearEmpties ==
    /\ call.op = "clear" =>
          /\ map = SplayMapNew
          /\ call.value = call.presize
          /\ \A k \in Keys : Get(map, k).ret = None
          /\ \A k \in Keys, v \in Vals : Insert(map, k, v) = Insert(SplayMapNew, k, v)
    /\ iter = None =>
          /\ Clear(map).map = SplayMapNew
          /\ Clear(map).dropped = map.size
          /\ \A k \in Keys, v \in Vals :
                LET r == Insert(Clear(map).map, k, v)
                IN  /\ r.ret = None
                    /\ r.map = [root |-> Some(NodeNew(k, v, None, None)), size |-> 1]

\* clear() was called on a map of three or more pairs
C14_Witness ==
    /\ call.op = "clear"
    /\ call.presize >= 3
    /\ Cardinality({k \in Keys : call.pre[k] # None}) >= 3
    /\ map.root = None

\* the descent of a splay on key k from `node` ends in a zig-zig rotation
\* whose rotated node has no further child, after at least one earlier step
RECURSIVE EndsInZigZig(_, _, _)
EndsInZigZig(k, node, linked) ==
    IF k = node.key THEN FALSE
    ELSE IF k < node.key
    THEN IF node.left = None THEN FALSE
         ELSE LET left == node.left[1]
              IN  IF k < left.key
                  THEN IF left.left = None THEN linked
                       ELSE EndsInZigZig(k, left.left[1], TRUE)
                  ELSE EndsInZigZig(k, left, TRUE)
    ELSE IF node.right = None THEN FALSE
         ELSE LET right == node.right[1]
              IN  IF k > right.key
                  THEN IF right.right = None THEN linked
                       ELSE EndsInZigZig(k, right.right[1], TRUE)
                  ELSE EndsInZigZig(k, right, TRUE)

\* C17: a splay preserves the in-order sequence of pairs: the tree the map
\* operations leave is a binary search tree with unique keys holding exactly
\* the pairs of the reference map, and splaying it on any key, present or
\* not, gives a tree with the same in-order sequence.
C17_SplayPreservesPairs ==
    iter = None =>
        /\ InOrder(map.root) = Ascending
        /\ StrictlyAscending(InOrder(map.root))
        /\ map.root # None =>
              \A k \in 0..(MaxKey + 1) :
                  InOrder(Some(splay_with_key(k, map.root[1]))) = InOrder(map.root)

\* the tree is one on which a splay ends early in a zig-zig, with the
\* rotated pair carrying subtrees
C17_Witness ==
    /\ iter = None
    /\ call.op \in {"get", "insert", "remove"}
    /\ map.size >= 4
    /\ \E k \in 0..(MaxKey + 1) : EndsInZigZig(k, map.root[1], FALSE)

\* C18: after a splay on key k the root holds k if k is stored, and otherwise
\* the stored key next to k in sorted order (no stored key lies strictly
\* between the root's key and k); insert then leaves every smaller key in the
\* left subtree of the new root and every larger key in its right subtree.
C18_SplayRootIsNearest ==
    (iter = None /\ map.root # None) =>
        /\ \A k \in 0..(MaxKey + 1) :
              LET root == splay_with_key(k, map.root[1])
                  stored == KeysOf(map.root)
              IN  /\ k \in stored => root.key = k
                  /\ k \notin stored =>
                        ~\E s \in stored : \/ (root.key < s /\ s < k)
                                           \/ (k < s /\ s < root.key)
        /\ \A k \in Keys, v \in Vals :
              LET root == Insert(map, k, v).map.root[1]
              IN  /\ root.key = k
                  /\ KeysOf(root.left) = {s \in KeysOf(map.root) : s < k}
                  /\ KeysOf(root.right) = {s \in KeysOf(map.root) : s > k}
        /\ call.op = "get" =>
              ~\E s \in KeysOf(map.root) : \/ (map.root[1].key < s /\ s < call.key)
                                           \/ (call.key < s /\ s < map.root[1].key)

\* get looked for an absent key that lies between stored keys
C18_Witness ==
    /\ call.op = "get"
    /\ call.ret = None
    /\ map.size >= 3
    /\ map.root[1].key # call.key
    /\ \E a, b \in KeysOf(map.root) : a < call.key /\ call.key < b

\* ------------------------------------------------------------------ two exclusions in both orders

\* the exclusions with positive dimensions
Exclusion == [side : Sides, size : {SizeNew(i, b) : i \in 1..MaxInline, b \in 1..MaxBlock}]

\* exclude(e2) on what an earlier exclude returned; nothing runs after a panic
ExcludeAfter(first, e2) ==
    IF ~first.ok THEN first ELSE Exclude(first.excl, e2.side, e2.size)

\* a rank that orders the exclusions, to take each pair once
Rank(e) ==
    ((IF e.side = "Left" THEN 0 ELSE 1) * (MaxInline + 1) + e.size.inline) * (MaxBlock + 1)
        + e.size.block

\* two exclude calls in a row, in either order; `other` is the Exclusions the
\* same two calls leave when made in the other order
ExcludeTwice ==
    \E singles \in {{[e |-> e, r |-> Exclude(excl, e.side, e.size)] : e \in Exclusion}} :
        \E a \in singles, b \in singles :
            /\ Rank(a.e) <= Rank(b.e)
            /\ \E ab \in {ExcludeAfter(a.r, b.e)}, ba \in {ExcludeAfter(b.r, a.e)} :
                  \E r \in {[excl |-> ab.excl, other |-> ba.excl],
                            [excl |-> ba.excl, other |-> ab.excl]} :
                      /\ ecall.ok
                      /\ excl' = r.excl
                      /\ ecall' = [NoECall EXCEPT !.op = "exclude", !.ok = ab.ok /\ ba.ok,
                                                   !.other = Some(r.other)]
                      /\ intruded' = Intrude(Intrude(intruded, a.e.side, a.e.size),
                                             b.e.side, b.e.size)
                      /\ UNCHANGED <<history, mvars>>

\* a place call of which only the effect on the band tree is kept
PlaceUnrecorded ==
    \E inline \in PlaceInlines :
        /\ ecall.ok
        /\ ecall.pc = "idle"
        /\ LET r == Place(excl, "Left", SizeNew(inline, 0))
           IN  /\ excl' = r.excl
               /\ ecall' = [NoECall EXCEPT !.op = "place", !.ok = r.ok]
        /\ UNCHANGED <<intruded, history, mvars>>

NextComm == \/ ExcludeCall \/ ExcludeTwice \/ PlaceUnrecorded

SpecComm == Init /\ [][NextComm]_vars

\* C21: exclude calls commute on the band state: two exclusions with positive
\* in-range sizes applied in either order leave the same bands (start,
\* length, left, right) in the same order, and so every later place returns
\* the same point.
C21_ExcludeCommutes ==
    ecall.other # None =>
        /\ ecall.ok
        /\ Content(excl) = Content(ecall.other[1])
        /\ \A side \in Sides, inline \in PlaceInlines :
              Place(excl, side, SizeNew(inline, 0)).ret
                  = Place(ecall.other[1], side, SizeNew(inline, 0)).ret

\* the two orders left band trees of different shapes, holding three or more
\* bands with different intrusions
C21_Witness ==
    /\ ecall.other # None
    /\ ecall.other[1].bands # excl.bands
    /\ Len(Bands) > 2
    /\ Bands[1][2].left # Bands[2][2].left

\* ------------------------------------------------------------------ exclude, one loop iteration at a time

\* the most iterations the loop is let run: one more than there can be bands
MaxSteps == MaxBlock + 2

\* exclude up to the loop: the zero check, split, and the loop variables set
\* up; `whole` is what the call as a whole returns
ExcludeStart ==
    \E side \in Sides, inline \in 0..MaxInline, block \in 0..MaxBlock :
        /\ ecall.ok
        /\ ecall.pc = "idle"
        /\ LET size == SizeNew(inline, block) IN
           IF inline = 0 \/ block = 0
           THEN /\ excl' = excl
                /\ ecall' = [NoECall EXCEPT !.op = "exclude"]
           ELSE \E s \in {Split(excl, side, size)} :
                   /\ excl' = s.excl
                   /\ ecall' = [NoECall EXCEPT !.op = "exclude", !.side = side,
                                                !.size = size, !.ok = s.ok,
                                                !.pc = IF s.ok THEN "loop" ELSE "idle",
                                                !.last = size.block,
                                                !.whole = Some(Exclude(excl, side, size).excl)]
        /\ UNCHANGED <<intruded, history, mvars>>

\* one iteration of the loop; on the break the call returns
LoopStep ==
    /\ ecall.pc = "loop"
    /\ ecall.steps < MaxSteps
    /\ \E r \in {PropagateStep(excl.bands, ecall.side, ecall.size, ecall.last)} :
          /\ excl' = [excl EXCEPT !.bands = r.bands]
          /\ IF r.exit = "no"
             THEN /\ ecall' = [ecall EXCEPT !.last = r.last, !.steps = ecall.steps + 1]
                  /\ intruded' = intruded
             ELSE /\ ecall' = [ecall EXCEPT !.pc = "idle", !.exit = r.exit]
                  /\ intruded' = Intrude(intruded, ecall.side, ecall.size)
    /\ UNCHANGED <<history, mvars>>

NextLoopStep == \/ ExcludeStart \/ LoopStep \/ PlaceUnrecorded

\* a loop that is running takes its next iteration
SpecLoop == Init /\ [][NextLoopStep]_vars /\ WF_vars(LoopStep)

\* the loop has updated at most as many bands as lie before size.block, the
\* tracked position is a band start below size.block once a band was updated,
\* and the break was taken for one of its two reasons, leaving what exclude
\* as a whole computes
C22_LoopBounded ==
    /\ ecall.steps <= Len(Bands) - 1
    /\ ecall.steps > 0 =>
          /\ ecall.last < ecall.size.block
          /\ \E i \in 1..Len(Bands) : Bands[i][1] = ecall.last
    /\ (ecall.op = "exclude" /\ ecall.pc = "idle" /\ ecall.whole # None) =>
          /\ excl = ecall.whole[1]
          /\ ecall.exit \in {"deeper", "none"}
          /\ ecall.exit = "deeper" =>
                -BandGet(excl.bands.root[1].value, ecall.side) > ecall.size.inline
          /\ ecall.exit = "none" => ecall.last = 0

\* an iteration that updates a band moves the tracked position to a strictly
\* smaller one
C22_PositionDecreases ==
    (ecall.pc = "loop" /\ ecall'.pc = "loop" /\ ecall'.steps # ecall.steps) =>
        ecall'.last < ecall.last

\* C22: exclude always terminates: the propagate loop visits each band at
\* most once, the tracked block position strictly decreasing on every
\* iteration that updates a band, and it exits when the located band has a
\* strictly greater intrusion on `side` or when no band is found.
C22_ExcludeTerminates ==
    /\ []C22_LoopBounded
    /\ [][C22_PositionDecreases]_vars
    /\ (ecall.pc = "loop") ~> (ecall.pc = "idle")

\* a loop that updated a band and then stopped at a deeper one
C22_Witness ==
    /\ ecall.op = "exclude"
    /\ ecall.pc = "idle"
    /\ ecall.steps >= 1
    /\ ecall.exit = "deeper"
    /\ Len(Bands) > 2

====
